---- MODULE Spec2Model ----
(***************************************************************************)
(* Model of the Resume-Maker Flask application (src/app.py).               *)
(*                                                                         *)
(* Text is modelled as sequences of one-character strings, so that the     *)
(* string conversions of the program (strip, lower, split, replace,        *)
(* secure_filename, pathlib suffix) are computed and not assumed.          *)
(***************************************************************************)
EXTENDS Integers, Sequences, FiniteSets, TLC

VARIABLES
    \* ---- Sanitizer runs (escape_html applied repeatedly to one text)
    escIn, escOut,
    \* ---- Upload validation runs (allowed_file + measured size)
    upPhoto, upResult,
    \* ---- Parallel-array assembly runs (experience / education blocks)
    zipIn, zipOut,
    \* ---- Concurrent registration (threads of the request server)
    usersFile, jsonLock, pc, local, signupReq,
    \* ---- One browser session against the application
    session, resumes, uploads, request, response, context

escVars  == <<escIn, escOut>>
upVars   == <<upPhoto, upResult>>
zipVars  == <<zipIn, zipOut>>
thrVars  == <<jsonLock, pc, local, signupReq>>
appVars  == <<session, resumes, uploads, request, response, context>>
vars     == <<escIn, escOut, upPhoto, upResult, zipIn, zipOut,
              usersFile, jsonLock, pc, local, signupReq,
              session, resumes, uploads, request, response, context>>

\* Python's None. TLC compares a string only with strings, so an absent value of a
\* string-valued slot is NoneS and an absent value of any other slot is None.
None == [none |-> TRUE]
NoneS == "None"

(***************************************************************************)
(* Bounds of the model                                                     *)
(***************************************************************************)
MaxTextLen == 3
MaxApply == 2
MaxNameLen == 5
MaxArr == 3
MaxThreads == 2
MaxResumes == 2

(***************************************************************************)
(* Generic text helpers                                                    *)
(***************************************************************************)
SeqsUpTo(S, n) == UNION {[1..k -> S] : k \in 0..n}

RECURSIVE Concat(_)
Concat(ss) == IF ss = <<>> THEN <<>> ELSE Head(ss) \o Concat(Tail(ss))

\* str.replace(c, rep) for a one-character pattern c
RECURSIVE ReplaceChar(_, _, _)
ReplaceChar(s, c, rep) ==
    IF s = <<>> THEN <<>>
    ELSE (IF Head(s) = c THEN rep ELSE <<Head(s)>>) \o ReplaceChar(Tail(s), c, rep)

Whitespace == {" ", "\t", "\n"}

RECURSIVE LStrip(_, _)
LStrip(s, cs) == IF s # <<>> /\ Head(s) \in cs THEN LStrip(Tail(s), cs) ELSE s

RECURSIVE RStrip(_, _)
RStrip(s, cs) ==
    IF s # <<>> /\ s[Len(s)] \in cs THEN RStrip(SubSeq(s, 1, Len(s) - 1), cs) ELSE s

\* str.strip(chars)
StripChars(s, cs) == RStrip(LStrip(s, cs), cs)

\* str.strip()
Strip(s) == StripChars(s, Whitespace)

\* str.split(sep) for a one-character separator: keeps empty pieces
RECURSIVE SplitOn(_, _)
SplitOn(s, sep) ==
    IF \A i \in 1..Len(s) : s[i] # sep THEN <<s>>
    ELSE LET i == CHOOSE j \in 1..Len(s) :
                      s[j] = sep /\ \A k \in 1..(j - 1) : s[k] # sep
         IN  <<SubSeq(s, 1, i - 1)>> \o SplitOn(SubSeq(s, i + 1, Len(s)), sep)

\* str.split(): splits on runs of whitespace, no empty pieces
SplitWS(s) ==
    SelectSeq(SplitOn([i \in 1..Len(s) |-> IF s[i] \in Whitespace THEN " " ELSE s[i]], " "),
              LAMBDA w : w # <<>>)

\* "sep".join(parts)
RECURSIVE Join(_, _)
Join(parts, sep) ==
    IF parts = <<>> THEN <<>>
    ELSE IF Len(parts) = 1 THEN parts[1]
    ELSE parts[1] \o sep \o Join(Tail(parts), sep)

UpperLetters == <<"A","B","C","D","E","F","G","H","I","J","K","L","M",
                  "N","O","P","Q","R","S","T","U","V","W","X","Y","Z">>
LowerLetters == <<"a","b","c","d","e","f","g","h","i","j","k","l","m",
                  "n","o","p","q","r","s","t","u","v","w","x","y","z">>
Digits == {"0","1","2","3","4","5","6","7","8","9"}

LowerChar(c) ==
    IF \E i \in 1..Len(UpperLetters) : UpperLetters[i] = c
    THEN LowerLetters[CHOOSE i \in 1..Len(UpperLetters) : UpperLetters[i] = c]
    ELSE c

UpperChar(c) ==
    IF \E i \in 1..Len(LowerLetters) : LowerLetters[i] = c
    THEN UpperLetters[CHOOSE i \in 1..Len(LowerLetters) : LowerLetters[i] = c]
    ELSE c

\* str.lower()
Lower(s) == [i \in 1..Len(s) |-> LowerChar(s[i])]

(***************************************************************************)
(* Sanitizer                                                               *)
(***************************************************************************)
Amp  == <<"&","a","m","p",";">>
Lt   == <<"&","l","t",";">>
Gt   == <<"&","g","t",";">>
Quot == <<"&","q","u","o","t",";">>
Apos == <<"&","#","3","9",";">>

\* a plausible slip: the ampersand is replaced last instead of first
escape_html_amp_last(text) ==
    IF text = <<>> THEN <<>>
    ELSE ReplaceChar(ReplaceChar(ReplaceChar(ReplaceChar(ReplaceChar(
             text, "<", Lt), ">", Gt), "\"", Quot), "'", Apos), "&", Amp)

escape_html(text) ==
    IF text = <<>> THEN <<>>
    ELSE ReplaceChar(ReplaceChar(ReplaceChar(ReplaceChar(ReplaceChar(
             text, "&", Amp), "<", Lt), ">", Gt), "\"", Quot), "'", Apos)

\* "".join(w[0].upper() for w in (name or " ").split()[:2])
initials(name) ==
    LET ws == SplitWS(IF name = <<>> THEN <<" ">> ELSE name)
        two == SubSeq(ws, 1, IF Len(ws) < 2 THEN Len(ws) ELSE 2)
    IN  [i \in 1..Len(two) |-> UpperChar(two[i][1])]

(***************************************************************************)
(* Upload Validator                                                        *)
(***************************************************************************)
ALLOWED_EXT == {<<".","p","n","g">>, <<".","j","p","g">>, <<".","j","p","e","g">>}
ALLOWED_MIMETYPES == {"image/png", "image/jpeg"}
MAX_CONTENT_LENGTH == 2 * 1024 * 1024

\* characters kept by werkzeug's _filename_ascii_strip_re = [^A-Za-z0-9_.-]
FilenameSafeChars ==
    {UpperLetters[i] : i \in 1..Len(UpperLetters)} \cup
    {LowerLetters[i] : i \in 1..Len(LowerLetters)} \cup Digits \cup {"_", ".", "-"}

\* werkzeug.utils.secure_filename on a POSIX host, for ASCII names (the NFKD /
\* ascii-ignore step is the identity on them): path separators become blanks,
\* runs of whitespace become one "_", every character outside
\* [A-Za-z0-9_.-] is dropped, and leading/trailing "." and "_" are stripped.
secure_filename(filename) ==
    LET noSep  == ReplaceChar(filename, "/", <<" ">>)
        joined == Join(SplitWS(noSep), <<"_">>)
        kept   == SelectSeq(joined, LAMBDA c : c \in FilenameSafeChars)
    IN  StripChars(kept, {".", "_"})

\* pathlib.Path(name).suffix for a name without path separators
suffix(name) ==
    IF \A i \in 1..Len(name) : name[i] # "." THEN <<>>
    ELSE LET i == CHOOSE j \in 1..Len(name) :
                      name[j] = "." /\ \A k \in (j + 1)..Len(name) : name[k] # "."
         IN  IF 1 < i /\ i < Len(name) THEN SubSeq(name, i, Len(name)) ELSE <<>>

allowed_file(filename, mimetype) ==
    LET ext == Lower(suffix(filename))
    IN  IF ext \notin ALLOWED_EXT THEN FALSE
        ELSE IF mimetype # "" /\ mimetype \notin ALLOWED_MIMETYPES THEN FALSE
        ELSE TRUE

\* a plausible slip: the size ceiling is compared with >= instead of >
PhotoTooLargeOffByOne(photo) == photo.size >= MAX_CONTENT_LENGTH

\* file_size > app.config["MAX_CONTENT_LENGTH"], file_size measured on the stream
PhotoTooLarge(photo) == photo.size > MAX_CONTENT_LENGTH

\* a plausible slip: the size is never checked
PhotoCheckNoSize(photo) ==
    IF ~allowed_file(secure_filename(photo.filename), photo.mimetype)
    THEN "invalid_type" ELSE "ok"

\* The gate generate() puts in front of a named photo: the outcome is the
\* branch taken ("invalid_type" and "too_large" return early).
PhotoCheck(photo) ==
    IF ~allowed_file(secure_filename(photo.filename), photo.mimetype)
    THEN "invalid_type"
    ELSE IF PhotoTooLarge(photo) THEN "too_large"
    ELSE "ok"

NameAlphabet == {"p", "n", "g", "G", "."}
ExtraNames ==
    { <<"a",".","j","p","g">>, <<"a",".","j","p","e","g">>, <<"a",".","J","P","G">>,
      <<"a",".","J","p","e","G">>, <<"_",".","p","n","g">>, <<"a"," ","b",".","p","n","g">>,
      <<"a",".","p","!","n","g">>, <<"a",".","g","i","f">>,
      <<"a",".","p","n","g",".","e","x","e">>, <<"a","/","b",".","p","n","g">>,
      <<"!","!">>, <<"a",".","p","n","g","_">> }
UpNames == (SeqsUpTo(NameAlphabet, MaxNameLen) \ {<<>>}) \cup ExtraNames
UpMimes == {"", "image/png", "image/jpeg", "image/gif"}
UpSizes == {MAX_CONTENT_LENGTH - 1, MAX_CONTENT_LENGTH, MAX_CONTENT_LENGTH + 1}
UpPhotos == [filename : UpNames, mimetype : UpMimes, size : UpSizes]

UploadValidate ==
    /\ upResult = NoneS
    /\ upResult' = PhotoCheck(upPhoto)
    /\ UNCHANGED <<upPhoto, escVars, zipVars, usersFile, thrVars, appVars>>

(***************************************************************************)
(* Form Assembler: parallel arrays                                         *)
(***************************************************************************)
\* a plausible slip: zipping the arrays truncates to the shortest one
ZipExperienceShortest(exp_titles, exp_companies, exp_durations, exp_descs) ==
    LET m(a, b) == IF a < b THEN a ELSE b
        n == m(m(Len(exp_titles), Len(exp_companies)),
               m(Len(exp_durations), Len(exp_descs)))
    IN  [i \in 1..n |->
            [title |-> exp_titles[i], company |-> exp_companies[i],
             duration |-> exp_durations[i], description |-> exp_descs[i]]]

ZipExperience(exp_titles, exp_companies, exp_durations, exp_descs) ==
    [i \in 1..Len(exp_titles) |->
        [title       |-> exp_titles[i],
         company     |-> IF i <= Len(exp_companies) THEN exp_companies[i] ELSE <<>>,
         duration    |-> IF i <= Len(exp_durations) THEN exp_durations[i] ELSE <<>>,
         description |-> IF i <= Len(exp_descs) THEN exp_descs[i] ELSE <<>>]]

ZipEducation(edu_degrees, edu_unis, edu_years) ==
    [i \in 1..Len(edu_degrees) |->
        [degree     |-> edu_degrees[i],
         university |-> IF i <= Len(edu_unis) THEN edu_unis[i] ELSE <<>>,
         year       |-> IF i <= Len(edu_years) THEN edu_years[i] ELSE <<>>]]

ZipVals == {<<"a">>, <<"b">>}
ZipFill == {<<"c">>}
\* one run assembles either experience blocks or education blocks
ZipInputs ==
    [experience_title : SeqsUpTo(ZipVals, MaxArr),
     experience_company : SeqsUpTo(ZipVals, MaxArr),
     experience_duration : SeqsUpTo(ZipFill, MaxArr),
     experience_description : SeqsUpTo(ZipFill, MaxArr),
     education_degree : {<<>>}, education_university : {<<>>}, education_year : {<<>>}]
    \cup
    [experience_title : {<<>>}, experience_company : {<<>>},
     experience_duration : {<<>>}, experience_description : {<<>>},
     education_degree : SeqsUpTo(ZipVals, MaxArr),
     education_university : SeqsUpTo(ZipVals, MaxArr),
     education_year : SeqsUpTo(ZipFill, MaxArr)]

AssembleBlocks ==
    /\ zipOut = None
    /\ zipOut' = [experience |-> ZipExperience(zipIn.experience_title,
                                               zipIn.experience_company,
                                               zipIn.experience_duration,
                                               zipIn.experience_description),
                  education  |-> ZipEducation(zipIn.education_degree,
                                              zipIn.education_university,
                                              zipIn.education_year)]
    /\ UNCHANGED <<zipIn, escVars, upVars, usersFile, thrVars, appVars>>

(***************************************************************************)
(* Sanitizer runs                                                          *)
(***************************************************************************)
MetaChars == {"&", "<", ">", "\"", "'"}
EscAlphabet == MetaChars \cup {"a", ";"}

EscapeApply ==
    /\ Len(escOut) < MaxApply
    /\ escOut' = Append(escOut,
                        escape_html(IF escOut = <<>> THEN escIn ELSE escOut[Len(escOut)]))
    /\ UNCHANGED <<escIn, upVars, zipVars, usersFile, thrVars, appVars>>

(***************************************************************************)
(* Document Store: accounts (data/users.json)                              *)
(*                                                                         *)
(* usersFile.state is "absent" before the file is first created, "ok" when *)
(* it holds the JSON array usersFile.users, and "truncated" between the    *)
(* open(..., "w") of a writer and its json.dump: a reader then finds an    *)
(* empty file and json.load raises.                                        *)
(***************************************************************************)
Threads == 1..MaxThreads

\* uuid.uuid4().hex: the n-th value drawn; no two draws are equal
Uuid(n) == [hex |-> n]

generate_password_hash(pwd) == <<"pbkdf2", pwd>>
check_password_hash(pwhash, pwd) == pwhash = <<"pbkdf2", pwd>>

Account(user_id, name, email, password_hash) ==
    [id |-> user_id, name |-> name, email |-> email, password |-> password_hash]

\* for u in users: if u.get("email") == email: return u
FindByEmail(users, email) ==
    IF \E i \in 1..Len(users) : users[i].email = email
    THEN users[CHOOSE i \in 1..Len(users) :
                   users[i].email = email /\ \A k \in 1..(i - 1) : users[k].email # email]
    ELSE None

\* signup(): the form as read and normalised at the top of the POST branch
SignupNames == {<<" ">>, <<"n">>}
SignupEmails == {<<"a">>, <<"A">>, <<"b">>}
SignupForms ==
    [name : SignupNames, email : SignupEmails,
     password : {"p"}, confirm_password : {"p", "q"}]

\* all([name, email, pwd, confirm]) fails, or pwd != confirm
SignupFormError(form) ==
    IF Strip(form.name) = <<>> \/ Lower(Strip(form.email)) = <<>>
       \/ form.password = "" \/ form.confirm_password = ""
    THEN "All fields are required."
    ELSE IF form.password # form.confirm_password THEN "Passwords do not match."
    ELSE NoneS

NoLocal == [name |-> <<>>, email |-> <<>>, users |-> <<>>, user_id |-> None,
            outcome |-> NoneS]

Goto(t, phase, step) == pc' = [pc EXCEPT ![t] = <<phase, step>>]

\* the step that follows _ensure_users_file() in load_users / save_users
AfterEnsure(phase) == IF phase = "save" THEN "lock" ELSE "read"

\* a request thread picks up a POST /signup and validates the form
SignupBegin(t) ==
    /\ pc[t] = <<"signup", "idle">>
    /\ \E form \in SignupForms :
         /\ signupReq' = [signupReq EXCEPT ![t] = form]
         /\ IF SignupFormError(form) # NoneS
            THEN /\ local' = [local EXCEPT ![t].outcome = SignupFormError(form)]
                 /\ Goto(t, "signup", "done")
            ELSE /\ local' = [local EXCEPT ![t].name = Strip(form.name),
                                           ![t].email = Lower(Strip(form.email))]
                 /\ Goto(t, "find", "ensure")
    /\ UNCHANGED <<usersFile, jsonLock, escVars, upVars, zipVars, appVars>>

\* _ensure_users_file(): if not USERS_FILE.exists()
EnsureCheck(t) ==
    /\ pc[t][2] = "ensure"
    /\ IF usersFile.state = "absent"
       THEN Goto(t, pc[t][1], "create")
       ELSE Goto(t, pc[t][1], AfterEnsure(pc[t][1]))
    /\ UNCHANGED <<usersFile, jsonLock, local, signupReq, escVars, upVars, zipVars, appVars>>

\* _ensure_users_file(): USERS_FILE.open("w")
EnsureOpen(t) ==
    /\ pc[t][2] = "create"
    /\ usersFile' = [state |-> "truncated", users |-> <<>>]
    /\ Goto(t, pc[t][1], "dump")
    /\ UNCHANGED <<jsonLock, local, signupReq, escVars, upVars, zipVars, appVars>>

\* _ensure_users_file(): json.dump([], f) and close
EnsureDump(t) ==
    /\ pc[t][2] = "dump"
    /\ usersFile' = [state |-> "ok", users |-> <<>>]
    /\ Goto(t, pc[t][1], AfterEnsure(pc[t][1]))
    /\ UNCHANGED <<jsonLock, local, signupReq, escVars, upVars, zipVars, appVars>>

\* find_user_by_email(email): load_users() and the linear scan
FindRead(t) ==
    /\ pc[t] = <<"find", "read">>
    /\ IF usersFile.state # "ok"
       THEN /\ local' = [local EXCEPT ![t].outcome = "500"]
            /\ Goto(t, "signup", "error")
       ELSE IF FindByEmail(usersFile.users, local[t].email) # None
       THEN /\ local' = [local EXCEPT ![t].outcome = "E-mail already registered."]
            /\ Goto(t, "signup", "done")
       ELSE /\ local' = local
            /\ Goto(t, "add", "ensure")
    /\ UNCHANGED <<usersFile, jsonLock, signupReq, escVars, upVars, zipVars, appVars>>

\* add_user(): users = load_users(); user_id = uuid4; users.append({...})
AddRead(t) ==
    /\ pc[t] = <<"add", "read">>
    /\ IF usersFile.state # "ok"
       THEN /\ local' = [local EXCEPT ![t].outcome = "500"]
            /\ Goto(t, "signup", "error")
       ELSE /\ local' = [local EXCEPT
                 ![t].user_id = Uuid(t),
                 ![t].users = Append(usersFile.users,
                                     Account(Uuid(t), local[t].name, local[t].email,
                                             generate_password_hash(signupReq[t].password)))]
            /\ Goto(t, "save", "ensure")
    /\ UNCHANGED <<usersFile, jsonLock, signupReq, escVars, upVars, zipVars, appVars>>

\* save_users(): with _json_lock
SaveLock(t) ==
    /\ pc[t] = <<"save", "lock">>
    /\ jsonLock = {}
    /\ jsonLock' = {t}
    /\ Goto(t, "save", "open")
    /\ UNCHANGED <<usersFile, local, signupReq, escVars, upVars, zipVars, appVars>>

\* save_users(): USERS_FILE.open("w")
SaveOpen(t) ==
    /\ pc[t] = <<"save", "open">>
    /\ usersFile' = [state |-> "truncated", users |-> <<>>]
    /\ Goto(t, "save", "write")
    /\ UNCHANGED <<jsonLock, local, signupReq, escVars, upVars, zipVars, appVars>>

\* save_users(): json.dump(users, f, indent=2) and close
SaveWrite(t) ==
    /\ pc[t] = <<"save", "write">>
    /\ usersFile' = [state |-> "ok", users |-> local[t].users]
    /\ Goto(t, "save", "release")
    /\ UNCHANGED <<jsonLock, local, signupReq, escVars, upVars, zipVars, appVars>>

\* leaving the with-block; add_user returns user_id and signup() logs the user in
SaveRelease(t) ==
    /\ pc[t] = <<"save", "release">>
    /\ jsonLock' = {}
    /\ local' = [local EXCEPT ![t].outcome = "Account created and logged in."]
    /\ Goto(t, "signup", "done")
    /\ UNCHANGED <<usersFile, signupReq, escVars, upVars, zipVars, appVars>>

(***************************************************************************)
(* One browser session: every handler runs to completion                   *)
(*                                                                         *)
(* session   the Flask session: "user" and "last_resume_file"              *)
(* resumes   data/resumes: resume path -> stored JSON document             *)
(*           (the document holds only strings, lists, string-keyed objects *)
(*           and booleans, which json.dump / json.load give back equal)    *)
(* uploads   static/uploads: the stored photo file names                   *)
(* request   the request being answered, response / context its answer     *)
(***************************************************************************)
Templates == {"template1", "template2", "template3", "template4",
              "template5", "template6", "template7", "template8"}

\* load_users() as one step: the file is created empty when it is missing
LoadUsers == IF usersFile.state = "ok" THEN usersFile.users ELSE <<>>

\* uuid.uuid4().hex: a value no earlier call returned (nothing is ever deleted)
FreshUserId == Uuid(Len(LoadUsers) + 1)
FreshResumeId == Uuid(Cardinality(DOMAIN resumes) + 1)
FreshPhotoId == Uuid(Cardinality(uploads) + 1)

\* what the handler returns: a redirect, a rendered page, an abort or a file sent
\* as attachment (send_from_directory), with the last message it flashed
Respond(kind, target, flash) ==
    [kind |-> kind, target |-> target, flash |-> flash, file |-> None]
SendFile(path) ==
    [kind |-> "attachment", target |-> "download", flash |-> NoneS, file |-> path]

LoggedIn == session.user # None

\* login_required: the redirect of a request that carries no user
LoginRedirect(req) ==
    /\ request' = req
    /\ response' = Respond("redirect", "login", "Please log in to continue.")
    /\ context' = None
    /\ UNCHANGED <<session, resumes, uploads, usersFile>>

\* POST /signup
Signup ==
    \E form \in SignupForms :
      LET name  == Strip(form.name)
          email == Lower(Strip(form.email))
          users == LoadUsers
      IN  /\ request' = [op |-> "signup"]
          /\ context' = None
          /\ IF SignupFormError(form) # NoneS
             THEN /\ response' = Respond("page", "signup.html", SignupFormError(form))
                  /\ UNCHANGED <<session, usersFile>>
             ELSE IF FindByEmail(users, email) # None
             THEN /\ response' = Respond("page", "signup.html", "E-mail already registered.")
                  /\ usersFile' = [state |-> "ok", users |-> users]
                  /\ UNCHANGED session
             ELSE /\ usersFile' =
                       [state |-> "ok",
                        users |-> Append(users, Account(FreshUserId, name, email,
                                             generate_password_hash(form.password)))]
                  /\ session' = [session EXCEPT
                                   !.user = [id |-> FreshUserId, name |-> name, email |-> email]]
                  /\ response' = Respond("redirect", "dashboard",
                                         "Account created and logged in.")
          /\ UNCHANGED <<resumes, uploads>>

\* POST /login
Login ==
    \E raw \in SignupEmails, pwd \in {"p", "q"} :
      LET email == Lower(Strip(raw))
          users == LoadUsers
          user  == FindByEmail(users, email)
      IN  /\ request' = [op |-> "login"]
          /\ context' = None
          /\ usersFile' = [state |-> "ok", users |-> users]
          /\ IF user # None /\ check_password_hash(user.password, pwd)
             THEN /\ session' = [session EXCEPT
                                   !.user = [id |-> user.id, name |-> user.name,
                                             email |-> user.email]]
                  /\ response' = Respond("redirect", "dashboard", "Logged in successfully.")
             ELSE /\ response' = Respond("page", "login.html", "Invalid credentials.")
                  /\ UNCHANGED session
          /\ UNCHANGED <<resumes, uploads>>

\* GET /logout: session.pop("user", None)
Logout ==
    /\ request' = [op |-> "logout"]
    /\ session' = [session EXCEPT !.user = None]
    /\ response' = Respond("redirect", "home", "Logged out.")
    /\ context' = None
    /\ UNCHANGED <<resumes, uploads, usersFile>>

(***************************************************************************)
(* Form Assembler: POST /generate                                          *)
(***************************************************************************)
\* [s.strip() for s in text.split(",") if s.strip()]
ParseSkills(text) ==
    LET parts == SplitOn(text, ",")
        trimmed == [i \in 1..Len(parts) |-> Strip(parts[i])]
    IN  SelectSeq(trimmed, LAMBDA x : x # <<>>)

\* [L.strip() for L in getlist("languages[]") if L.strip()]
ParseLanguages(items) ==
    SelectSeq([i \in 1..Len(items) |-> Strip(items[i])], LAMBDA x : x # <<>>)

\* the data dictionary before the photo keys are added
BaseData(form, now) ==
    [name       |-> Strip(form.name),
     title      |-> Strip(form.title),
     email      |-> Strip(form.email),
     phone      |-> Strip(form.phone),
     address    |-> Strip(form.address),
     summary    |-> Strip(form.summary),
     skills     |-> ParseSkills(form.skills),
     languages  |-> ParseLanguages(form.languages),
     experience |-> ZipExperience(form.experience_title, form.experience_company,
                                  form.experience_duration, form.experience_description),
     education  |-> ZipEducation(form.education_degree, form.education_university,
                                 form.education_year),
     created_at |-> now]

\* f"/static/uploads/{filename}" with filename = f"{uuid}{ext}"
UploadName(uid, ext) == [stem |-> uid, ext |-> ext]
PhotoUrl(filename) == [dir |-> "/static/uploads/", filename |-> filename]

\* a submitted photo counts only when it has a file name
PhotoNamed(photo) == photo # None /\ photo.filename # <<>>

\* RESUMES_DIR / f"{user_id}_{resume_id}.json"
ResumePath(user_id, resume_id) == [user_id |-> user_id, resume_id |-> resume_id]

\* a submitted form with untrimmed text, an empty skill, a blank language and
\* parallel arrays of unequal lengths
GenForms ==
    { [name |-> <<" ","a"," ","b"," ">>, title |-> <<"t">>, email |-> <<"e">>,
       phone |-> <<"1">>, address |-> <<"x","\n","y">>, summary |-> <<"<","s",">">>,
       skills |-> <<"g",","," ","r",","," ",",","p">>,
       languages |-> << <<" ","e","n">>, <<" ">> >>,
       experience_title |-> << <<"t","1">>, <<"t","2">>, <<"t","3">> >>,
       experience_company |-> << <<"c","1">>, <<"c","2">> >>,
       experience_duration |-> << <<"d","1">>, <<"d","2">>, <<"d","3">>, <<"d","4">> >>,
       experience_description |-> << >>,
       education_degree |-> << <<"b","s">> >>,
       education_university |-> << <<"u","1">>, <<"u","2">> >>,
       education_year |-> << >>] }

GenPhotos ==
    { None,
      [filename |-> <<>>, mimetype |-> "application/octet-stream", size |-> 0],
      [filename |-> <<"m","e",".","P","N","G">>, mimetype |-> "image/png",
       size |-> MAX_CONTENT_LENGTH],
      [filename |-> <<"m","e",".","g","i","f">>, mimetype |-> "image/gif", size |-> 10],
      [filename |-> <<"m","e",".","j","p","g">>, mimetype |-> "text/html", size |-> 10],
      [filename |-> <<"m","e",".","j","p","g">>, mimetype |-> "image/jpeg",
       size |-> MAX_CONTENT_LENGTH + 1] }

\* the template field of the form: two valid names, an unknown one, or none
GenTemplates == {"template1", "template4", "template9", NoneS}
Clock == {"utcnow"}

\* request.form.get("template", "template1")
RequestedTemplate(template) == IF template = NoneS THEN "template1" ELSE template

\* The write of the resume document is taken to succeed (a failing open() takes
\* the generic except branch: nothing is persisted, the session is untouched).
Generate ==
    \E form \in GenForms, photo \in GenPhotos, template \in GenTemplates, now \in Clock :
      LET req  == [op |-> "generate", template |-> template, photo |-> photo]
          base == BaseData(form, now)
          check == IF PhotoNamed(photo) THEN PhotoCheck(photo) ELSE "none"
          filename == UploadName(FreshPhotoId,
                                 Lower(suffix(secure_filename(photo.filename))))
          user_id == session.user.id
          resume_id == FreshResumeId
          resume_path == ResumePath(user_id, resume_id)
          tmpl == RequestedTemplate(template)
      IN  IF ~LoggedIn THEN LoginRedirect(req)
          ELSE
          /\ request' = req
          /\ context' = None
          /\ UNCHANGED usersFile
          /\ IF check = "invalid_type"
             THEN /\ response' = Respond("redirect", "dashboard",
                                   "Invalid file type. Only PNG and JPEG allowed.")
                  /\ UNCHANGED <<session, resumes, uploads>>
             ELSE IF check = "too_large"
             THEN /\ response' = Respond("redirect", "dashboard",
                                   "File too large. Maximum allowed is 2MB.")
                  /\ UNCHANGED <<session, resumes, uploads>>
             ELSE
             \E saveOk \in (IF check = "ok" THEN BOOLEAN ELSE {FALSE}) :
               LET data == IF saveOk
                           THEN base @@ [photo |-> PhotoUrl(filename),
                                         photo_exists |-> TRUE]
                           ELSE base @@ [photo_exists |-> FALSE]
               IN  /\ Cardinality(DOMAIN resumes) < MaxResumes
                   /\ uploads' = IF saveOk THEN uploads \cup {filename} ELSE uploads
                   /\ resumes' = resumes @@
                         (resume_path :> [id |-> resume_id, user_id |-> user_id,
                                          data |-> data])
                   /\ session' = [session EXCEPT !.last_resume_file = resume_path]
                   /\ response' =
                        IF tmpl \notin Templates
                        THEN Respond("redirect", "dashboard", "Invalid template selected.")
                        ELSE Respond("redirect", tmpl,
                                     IF check = "ok" /\ ~saveOk
                                     THEN "Error saving photo. Please try again."
                                     ELSE NoneS)

(***************************************************************************)
(* Render Normalizer: GET /template1 .. /template8                         *)
(***************************************************************************)
\* dict.get(key, default)
Get(d, key, default) == IF key \in DOMAIN d THEN d[key] ELSE default

\* a plausible slip: photo_exists is not read from the document
NormalizeNoPhotoFlag(d) ==
    [name       |-> Get(d, "name", <<>>),
     title      |-> Get(d, "title", <<>>),
     email      |-> Get(d, "email", <<>>),
     phone      |-> Get(d, "phone", <<>>),
     address    |-> Get(d, "address", <<>>),
     summary    |-> Get(d, "summary", <<>>),
     skills     |-> Get(d, "skills", <<>>),
     languages  |-> Get(d, "languages", <<>>),
     experience |-> Get(d, "experience", <<>>),
     education  |-> Get(d, "education", <<>>),
     photo      |-> Get(d, "photo", None),
     photo_exists |-> FALSE]

Normalize(d) ==
    [name       |-> Get(d, "name", <<>>),
     title      |-> Get(d, "title", <<>>),
     email      |-> Get(d, "email", <<>>),
     phone      |-> Get(d, "phone", <<>>),
     address    |-> Get(d, "address", <<>>),
     summary    |-> Get(d, "summary", <<>>),
     skills     |-> Get(d, "skills", <<>>),
     languages  |-> Get(d, "languages", <<>>),
     experience |-> Get(d, "experience", <<>>),
     education  |-> Get(d, "education", <<>>),
     photo      |-> Get(d, "photo", None),
     photo_exists |-> Get(d, "photo_exists", FALSE)]

\* a plausible slip: the list of the spec's "four" flat templates
FlatTemplatesFour == {"template5", "template6", "template7", "template8"}

\* the templates that get the individual variables as well
FlatTemplates == {"template1", "template5", "template6", "template7", "template8"}

FlatKeys == {"name", "title", "email", "phone", "address", "summary",
             "skills", "languages", "experience", "education"}

\* the render context, without the three callables e / render_inline / render_html
BuildContext(template, normalized_data) ==
    LET ctx == [data |-> normalized_data,
                photo |-> normalized_data.photo,
                photo_exists |-> normalized_data.photo_exists,
                initials |-> initials(normalized_data.name)]
    IN  IF template \in FlatTemplates
        THEN ctx @@ [k \in FlatKeys |-> normalized_data[k]]
        ELSE ctx

TemplateView ==
    \E template \in Templates :
      LET req == [op |-> "view", template |-> template]
          resume_file == session.last_resume_file
      IN  IF ~LoggedIn THEN LoginRedirect(req)
          ELSE
          /\ request' = req
          /\ UNCHANGED <<session, resumes, uploads, usersFile>>
          /\ IF resume_file = None
             THEN /\ response' = Respond("abort", "400",
                        "No resume data found. Please build your resume first.")
                  /\ context' = None
             ELSE IF resume_file \notin DOMAIN resumes
             THEN /\ response' = Respond("abort", "400", "Saved resume not found on server.")
                  /\ context' = None
             ELSE /\ response' = Respond("page", template, NoneS)
                  /\ context' = BuildContext(template,
                                             Normalize(Get(resumes[resume_file], "data", <<>>)))

(***************************************************************************)
(* GET /resume/download                                                    *)
(***************************************************************************)
DownloadResumeJson ==
    LET req == [op |-> "download"]
        resume_file == session.last_resume_file
    IN  IF ~LoggedIn THEN LoginRedirect(req)
        ELSE
        /\ request' = req
        /\ context' = None
        /\ UNCHANGED <<session, resumes, uploads, usersFile>>
        /\ response' =
             IF resume_file = None
             THEN Respond("redirect", "dashboard", "No resume available to download.")
             ELSE IF resume_file \notin DOMAIN resumes
             THEN Respond("redirect", "dashboard", "Saved resume not found.")
             ELSE SendFile(resume_file)

(***************************************************************************)
(* Specifications                                                          *)
(***************************************************************************)
EscIdle == escIn = <<>> /\ escOut = <<>>
UpIdle  == upPhoto = None /\ upResult = NoneS
ZipIdle == zipIn = None /\ zipOut = None
ThrIdle == /\ jsonLock = {}
           /\ pc = [t \in Threads |-> <<"signup", "idle">>]
           /\ local = [t \in Threads |-> NoLocal]
           /\ signupReq = [t \in Threads |-> None]
AppIdle == /\ session = [user |-> None, last_resume_file |-> None]
           /\ resumes = <<>>
           /\ uploads = {}
           /\ request = None
           /\ response = None
           /\ context = None
FileAbsent == usersFile = [state |-> "absent", users |-> <<>>]

\* the application after start-up, used from one browser session
Init == EscIdle /\ UpIdle /\ ZipIdle /\ ThrIdle /\ AppIdle /\ FileAbsent
AppStep == /\ (Signup \/ Login \/ Logout \/ Generate \/ TemplateView \/ DownloadResumeJson)
           /\ UNCHANGED <<escVars, upVars, zipVars, thrVars>>
Next == AppStep
Spec == Init /\ [][Next]_vars

\* concurrent POST /signup requests, one per request thread
InitUsers == EscIdle /\ UpIdle /\ ZipIdle /\ ThrIdle /\ AppIdle /\ FileAbsent
NextUsers ==
    \E t \in Threads :
        \/ SignupBegin(t)
        \/ EnsureCheck(t)
        \/ EnsureOpen(t)
        \/ EnsureDump(t)
        \/ FindRead(t)
        \/ AddRead(t)
        \/ SaveLock(t)
        \/ SaveOpen(t)
        \/ SaveWrite(t)
        \/ SaveRelease(t)
SpecUsers == InitUsers /\ [][NextUsers]_vars

\* escape_html applied, and applied again to its own result
InitEscape ==
    /\ escIn \in SeqsUpTo(EscAlphabet, MaxTextLen)
    /\ escOut = <<>>
    /\ UpIdle /\ ZipIdle /\ ThrIdle /\ AppIdle /\ FileAbsent
NextEscape == EscapeApply
SpecEscape == InitEscape /\ [][NextEscape]_vars

\* the photo gate of generate() on every photo of UpPhotos
InitUpload ==
    /\ upPhoto \in UpPhotos
    /\ upResult = NoneS
    /\ EscIdle /\ ZipIdle /\ ThrIdle /\ AppIdle /\ FileAbsent
NextUpload == UploadValidate
SpecUpload == InitUpload /\ [][NextUpload]_vars

\* the experience / education loops of generate() on every input of ZipInputs
InitZip ==
    /\ zipIn \in ZipInputs
    /\ zipOut = None
    /\ EscIdle /\ UpIdle /\ ThrIdle /\ AppIdle /\ FileAbsent
NextZip == AssembleBlocks
SpecZip == InitZip /\ [][NextZip]_vars

(***************************************************************************)
(* Claims                                                                  *)
(***************************************************************************)

\* C1: a generate request whose template name is none of template1..template8
\* persists nothing: the stored resume records are the same after the request.
C1_NoPersistOnBadTemplate ==
    [][(/\ request'.op = "generate"
        /\ request'.template # NoneS
        /\ request'.template \notin {"template1", "template2", "template3", "template4",
                                     "template5", "template6", "template7", "template8"})
       => resumes' = resumes]_vars

AllThreadsQuiet == \A t \in Threads : pc[t][2] \in {"idle", "done", "error"}

\* C2: registrations are serialized by the lock, so once no registration is in
\* progress every add_user call that completed has its account in users.json
\* (stated for registrations of different e-mail addresses).
C2_NoLostRegistration ==
    (AllThreadsQuiet /\ \A t, u \in Threads : t # u => local[t].email # local[u].email) =>
        \A t \in Threads :
            local[t].outcome = "Account created and logged in."
            => \E i \in 1..Len(usersFile.users) :
                   usersFile.users[i].id = local[t].user_id

\* C3: no two stored accounts have e-mails that are equal ignoring case.
C3_UniqueEmails ==
    usersFile.state = "ok" =>
        \A i, j \in 1..Len(usersFile.users) :
            i # j => Lower(usersFile.users[i].email) # Lower(usersFile.users[j].email)

\* entry i of a companion array, or the empty string past its end
C4_Pad(arr, i) == IF i \in 1..Len(arr) THEN arr[i] ELSE <<>>

\* C4: there are as many experience (education) records as titles (degrees);
\* record i takes every companion field from position i of its array, or the
\* empty string when the array has no position i.
C4_AsymmetricZip ==
    zipOut # None =>
        /\ Len(zipOut.experience) = Len(zipIn.experience_title)
        /\ \A i \in 1..Len(zipOut.experience) :
              zipOut.experience[i] =
                  [title       |-> zipIn.experience_title[i],
                   company     |-> C4_Pad(zipIn.experience_company, i),
                   duration    |-> C4_Pad(zipIn.experience_duration, i),
                   description |-> C4_Pad(zipIn.experience_description, i)]
        /\ Len(zipOut.education) = Len(zipIn.education_degree)
        /\ \A i \in 1..Len(zipOut.education) :
              zipOut.education[i] =
                  [degree     |-> zipIn.education_degree[i],
                   university |-> C4_Pad(zipIn.education_university, i),
                   year       |-> C4_Pad(zipIn.education_year, i)]

\* three titles with two companies give three records, the third with no company
C4_Witness ==
    /\ zipOut # None
    /\ Len(zipIn.experience_title) = 3
    /\ Len(zipIn.experience_company) = 2
    /\ Len(zipIn.experience_duration) = 3
    /\ Len(zipOut.experience) = 3
    /\ zipOut.experience[3].company = <<>>
    /\ zipOut.experience[2].company = zipIn.experience_company[2]

\* the extension the validator looks at: of the sanitised file name, lower-cased
C5_Ext(photo) == Lower(suffix(secure_filename(photo.filename)))

C6_Stored == resumes[session.last_resume_file].data

C6_Fields == {"name", "title", "email", "phone", "address", "summary", "skills",
              "languages", "experience", "education", "photo", "photo_exists"}

\* C6 as claimed: every stored field, created_at included, is reproduced by the
\* normalised data of a template view.
C6_RoundTripAllFields ==
    context # None =>
        \A k \in C6_Fields \cup {"created_at"} :
            k \in DOMAIN C6_Stored
            => (k \in DOMAIN context.data /\ context.data[k] = C6_Stored[k])

\* C6 amended: every stored field except created_at is reproduced; created_at
\* is not carried over; photo, the one field generate may leave out, is None.
C6_RoundTripButCreatedAt ==
    context # None =>
        /\ DOMAIN context.data = C6_Fields
        /\ \A k \in C6_Fields :
              k \in DOMAIN C6_Stored => context.data[k] = C6_Stored[k]
        /\ DOMAIN C6_Stored \ {"photo"} = (C6_Fields \ {"photo"}) \cup {"created_at"}
        /\ "photo" \notin DOMAIN C6_Stored => context.data.photo = None

\* a record with a stored photo has been generated and then viewed
C6_Witness ==
    /\ context # None
    /\ request.op = "view"
    /\ "photo" \in DOMAIN C6_Stored
    /\ context.data.photo_exists = TRUE
    /\ context.data.skills = << <<"g">>, <<"r">>, <<"p">> >>

C7_ContainsMeta(s) == \E i \in 1..Len(s) : s[i] \in {"&", "<", ">", "\"", "'"}

C7_CharEscape(c) ==
    CASE c = "&"  -> <<"&","a","m","p",";">>
      [] c = "<"  -> <<"&","l","t",";">>
      [] c = ">"  -> <<"&","g","t",";">>
      [] c = "\"" -> <<"&","q","u","o","t",";">>
      [] c = "'"  -> <<"&","#","3","9",";">>
      [] OTHER    -> <<c>>

\* C7 as claimed: escaping twice gives what escaping once gives.
C7_Idempotent == Len(escOut) >= 2 => escOut[2] = escOut[1]

\* C7 amended: one application replaces each metacharacter by its entity and
\* escapes no "&" of an entity it introduced; a second application changes the
\* result exactly when the input holds one of the five metacharacters.
C7_SinglePassOnly ==
    /\ Len(escOut) >= 1 =>
          escOut[1] = Concat([i \in 1..Len(escIn) |-> C7_CharEscape(escIn[i])])
    /\ Len(escOut) >= 2 =>
          ((escOut[2] = escOut[1]) <=> ~C7_ContainsMeta(escIn))

\* "<&" escaped twice: the second pass re-escapes the ampersands of the first
C7_Witness ==
    /\ Len(escOut) >= 2
    /\ escIn = <<"<", "&">>
    /\ escOut[1] = <<"&","l","t",";","&","a","m","p",";">>
    /\ escOut[2] # escOut[1]

\* C8 as claimed: for every template the context holds the nested data object
\* and every flat binding, equal to the nested field.
C8_BothShapesAlways ==
    context # None =>
        /\ "data" \in DOMAIN context
        /\ \A k \in {"name", "title", "email", "phone", "address", "summary",
                     "skills", "languages", "experience", "education"} :
              k \in DOMAIN context /\ context[k] = context.data[k]

\* C8 amended: the nested data object is always there; the flat bindings are
\* there, equal to the nested fields, for template1, 5, 6, 7 and 8, and absent
\* for template2, 3 and 4.
C8_FlatForFiveTemplates ==
    context # None =>
        /\ "data" \in DOMAIN context
        /\ \A k \in {"name", "title", "email", "phone", "address", "summary",
                     "skills", "languages", "experience", "education"} :
              IF request.template \in {"template1", "template5", "template6",
                                       "template7", "template8"}
              THEN k \in DOMAIN context /\ context[k] = context.data[k]
              ELSE k \notin DOMAIN context

\* template1 viewed after a generate: both shapes are bound
C8_Witness ==
    /\ context # None
    /\ request.op = "view"
    /\ request.template = "template1"
    /\ context["name"] = <<"a", " ", "b">>
    /\ context.data.name = <<"a", " ", "b">>

\* the upload validation rejects this submitted photo
C9_Rejected(photo) ==
    /\ photo # None
    /\ photo.filename # <<>>
    /\ \/ C5_Ext(photo) \notin {<<".","p","n","g">>, <<".","j","p","g">>,
                                <<".","j","p","e","g">>}
       \/ (photo.mimetype # "" /\ photo.mimetype \notin {"image/png", "image/jpeg"})
       \/ photo.size > 2097152

\* C9: a generate request with a rejected photo writes nothing: no photo file,
\* no resume record, and the session's current-resume handle stays as it was.
C9_NoPartialSave ==
    [][(request'.op = "generate" /\ C9_Rejected(request'.photo))
       => /\ uploads' = uploads
          /\ resumes' = resumes
          /\ session'.last_resume_file = session.last_resume_file]_vars

\* a logged-in user who already has a resume submits an oversized photo
C9_Witness ==
    /\ request # None
    /\ request.op = "generate"
    /\ session.user # None
    /\ session.last_resume_file # None
    /\ C9_Rejected(request.photo)
    /\ request.photo.size > 2097152
    /\ response.flash = "File too large. Maximum allowed is 2MB."

\* C10: while a user is logged in, the session's current-resume handle, when
\* set, points at a record of that user.
C10_HandleBelongsToUser ==
    (session.user # None /\ session.last_resume_file # None)
    => /\ session.last_resume_file \in DOMAIN resumes
       /\ resumes[session.last_resume_file].user_id = session.user.id

====
